---- MODULE Spec2Model ----
(***************************************************************************)
(* A model of the gosql lexer (src/lexer.go, lines 1-329).                 *)
(*                                                                         *)
(* A Go string is modelled as a sequence of one-character strings, so      *)
(* source[p] in Go is source[p+1] here (see At).  The orchestrator lex is  *)
(* a state machine: one action per sub-lexer that the loop at lines 72-88  *)
(* can accept, one for the error return and one for the normal return.     *)
(* The sub-lexers are pure functions of (source, cursor) and are operators.*)
(***************************************************************************)
EXTENDS Integers, Sequences, FiniteSets, TLC

----------------------------------------------------------------------------
(* Bounds of the explored inputs *)

\* longest source drawn from the general alphabet
MaxLen == 3
\* longest source drawn from symbols and whitespace only
MaxSymLen == 3
\* longest body of a quoted literal
MaxLit == 2
\* longest run of digits in a generated numeral
MaxRun == 2
\* longest option list handed to longestMatch on its own
MaxOptions == 2

----------------------------------------------------------------------------
(* Characters *)

Upper == <<"A","B","C","D","E","F","G","H","I","J","K","L","M",
           "N","O","P","Q","R","S","T","U","V","W","X","Y","Z">>
Lower == <<"a","b","c","d","e","f","g","h","i","j","k","l","m",
           "n","o","p","q","r","s","t","u","v","w","x","y","z">>
Digits == {"0","1","2","3","4","5","6","7","8","9"}

IsUpper(c) == \E i \in 1..26 : Upper[i] = c
IsLower(c) == \E i \in 1..26 : Lower[i] = c

\* strings.ToLower on a one-byte ASCII string
ToLower(c) == IF IsUpper(c) THEN Lower[CHOOSE i \in 1..26 : Upper[i] = c] ELSE c

\* strings.ToLower on a whole string
ToLowerStr(s) == [i \in 1..Len(s) |-> ToLower(s[i])]

\* source[p] of the Go code, p zero-based
At(source, p) == source[p + 1]

\* source[a:b] of the Go code
Slice(source, a, b) == SubSeq(source, a + 1, b)

\* F(v) with v evaluated a single time: a Go local assigned once and read
\* several times
Once(v, F(_)) == CHOOSE x \in {F(y) : y \in {v}} : TRUE

----------------------------------------------------------------------------
(* Data model: lines 8-58 *)

SelectKeyword == <<"s","e","l","e","c","t">>
FromKeyword   == <<"f","r","o","m">>
AsKeyword     == <<"a","s">>
TableKeyword  == <<"t","a","b","l","e">>
CreateKeyword == <<"c","r","e","a","t","e">>
InsertKeyword == <<"i","n","s","e","r","t">>
IntoKeyword   == <<"i","n","t","o">>
ValuesKeyword == <<"v","a","l","u","e","s">>
IntKeyword    == <<"i","n","t">>
TextKeyword   == <<"t","e","x","t">>
WhereKeyword  == <<"w","h","e","r","e">>

SemiColonSymbol  == <<";">>
AsteriskSymbol   == <<"*">>
CommaSymbol      == <<",">>
LeftparenSymbol  == <<"(">>
RightparenSymbol == <<")">>

KeywordKind    == "Keyword"
SymbolKind     == "Symbol"
IdentifierKind == "Identifier"
StringKind     == "String"
NumericKind    == "Numeric"

Location(line, col) == [Line |-> line, Col |-> col]

Token(value, kind, loc) == [Value |-> value, Kind |-> kind, Loc |-> loc]

\* the nil *Token
NilToken == [Value |-> <<>>, Kind |-> "nil", Loc |-> Location(0, 0)]

\* cursor{} : the zero cursor
ZeroCursor == [pointer |-> 0, loc |-> Location(0, 0)]

\* what a lexer returns: (*Token, cursor, bool); panic marks a run-time panic
Result(tok, cur, ok) == [tok |-> tok, cur |-> cur, ok |-> ok, panic |-> FALSE]
\* a rejection that returns the zero cursor in place of ic
Reject_ZeroCursor(ic) == Result(NilToken, ZeroCursor, FALSE)

Reject(ic) == Result(NilToken, ic, FALSE)
Panic(ic) == [tok |-> NilToken, cur |-> ic, ok |-> FALSE, panic |-> TRUE]

\* cur.pointer++
IncPointer(cur) == [cur EXCEPT !.pointer = @ + 1]
\* cur.loc.Col++
IncCol(cur) == [cur EXCEPT !.loc.Col = @ + 1]

----------------------------------------------------------------------------
(* lexNumeric: lines 92-148 *)

\* lines 140-147: what follows the scanning loop
lexNumericEnd(source, ic, cur) ==
    IF cur.pointer = ic.pointer
    THEN Reject(ic)
    ELSE Result(Token(Slice(source, ic.pointer, cur.pointer), NumericKind, ic.loc),
                cur, TRUE)

RECURSIVE lexNumericLoop_NoSignSkip(_, _, _, _, _)
\* the scanning loop without lines 129-133: a sign after the exponent marker
\* is not consumed
lexNumericLoop_NoSignSkip(source, ic, cur0, periodFound, expMarkerFound) ==
    IF cur0.pointer >= Len(source)
    THEN lexNumericEnd(source, ic, cur0)
    ELSE LET c == At(source, cur0.pointer)
             cur == IncCol(cur0)
             isDigit == c \in Digits
             isPeriod == c = "."
             isExpMarker == c = "e"
         IN  IF cur.pointer = ic.pointer
             THEN IF ~isDigit /\ ~isPeriod
                  THEN Reject(ic)
                  ELSE lexNumericLoop_NoSignSkip(source, ic, IncPointer(cur), isPeriod,
                                                 expMarkerFound)
             ELSE IF isPeriod
             THEN IF periodFound
                  THEN Reject(ic)
                  ELSE lexNumericLoop_NoSignSkip(source, ic, IncPointer(cur), periodFound,
                                                 expMarkerFound)
             ELSE IF isExpMarker
             THEN IF expMarkerFound
                  THEN Reject(ic)
                  ELSE IF cur.pointer = Len(source) - 1
                  THEN Reject(ic)
                  ELSE lexNumericLoop_NoSignSkip(source, ic, IncPointer(cur), TRUE, TRUE)
             ELSE IF ~isDigit
             THEN lexNumericEnd(source, ic, cur)
             ELSE lexNumericLoop_NoSignSkip(source, ic, IncPointer(cur), periodFound,
                                            expMarkerFound)

RECURSIVE lexNumericLoop(_, _, _, _, _)
\* lines 97-139: one iteration of the scanning loop, then the rest of it
lexNumericLoop(source, ic, cur0, periodFound, expMarkerFound) ==
    IF cur0.pointer >= Len(source)
    THEN lexNumericEnd(source, ic, cur0)
    ELSE LET c == At(source, cur0.pointer)
             cur == IncCol(cur0)
             isDigit == c \in Digits
             isPeriod == c = "."
             isExpMarker == c = "e"
         IN  IF cur.pointer = ic.pointer
             THEN IF ~isDigit /\ ~isPeriod
                  THEN Reject(ic)
                  ELSE lexNumericLoop(source, ic, IncPointer(cur), isPeriod, expMarkerFound)
             ELSE IF isPeriod
             THEN IF periodFound
                  THEN Reject(ic)
                  ELSE lexNumericLoop(source, ic, IncPointer(cur), periodFound, expMarkerFound)
             ELSE IF isExpMarker
             THEN IF expMarkerFound
                  THEN Reject(ic)
                  ELSE IF cur.pointer = Len(source) - 1
                  THEN Reject(ic)
                  ELSE LET cNext == At(source, cur.pointer + 1)
                           cur2 == IF cNext = "-" \/ cNext = "+"
                                   THEN IncCol(IncPointer(cur))
                                   ELSE cur
                       IN  lexNumericLoop(source, ic, IncPointer(cur2), TRUE, TRUE)
             ELSE IF ~isDigit
             THEN lexNumericEnd(source, ic, cur)
             ELSE lexNumericLoop(source, ic, IncPointer(cur), periodFound, expMarkerFound)

lexNumeric(source, ic) == lexNumericLoop(source, ic, ic, FALSE, FALSE)

----------------------------------------------------------------------------
(* lexCharacterDelimited and lexString: lines 150-184 *)

RECURSIVE lexCharacterDelimitedLoop_AcceptAtEnd(_, _, _, _, _)
\* the scanning loop with the end of the source taken as a terminator
\* (line 180 returning the token instead of nil, ic, false)
lexCharacterDelimitedLoop_AcceptAtEnd(source, ic, cur, value, delimiter) ==
    IF cur.pointer >= Len(source)
    THEN Result(Token(value, StringKind, ic.loc), cur, TRUE)
    ELSE LET c == At(source, cur.pointer)
         IN  IF c = delimiter
             THEN IF cur.pointer + 1 >= Len(source) \/ At(source, cur.pointer + 1) # delimiter
                  THEN Result(Token(value, StringKind, ic.loc), cur, TRUE)
                  ELSE lexCharacterDelimitedLoop_AcceptAtEnd(source, ic,
                           IncPointer(IncCol(IncCol(IncPointer(cur)))),
                           Append(Append(value, delimiter), c), delimiter)
             ELSE lexCharacterDelimitedLoop_AcceptAtEnd(source, ic,
                      IncPointer(IncCol(cur)), Append(value, c), delimiter)

RECURSIVE lexCharacterDelimitedLoop(_, _, _, _, _)
\* lines 161-180: one iteration of the scanning loop, then the rest of it
lexCharacterDelimitedLoop(source, ic, cur, value, delimiter) ==
    IF cur.pointer >= Len(source)
    THEN Reject(ic)
    ELSE LET c == At(source, cur.pointer)
         IN  IF c = delimiter
             THEN IF cur.pointer + 1 >= Len(source) \/ At(source, cur.pointer + 1) # delimiter
                  THEN Result(Token(value, StringKind, ic.loc), cur, TRUE)
                  ELSE \* lines 171-173, then 177-178 and the loop's cur.pointer++
                       lexCharacterDelimitedLoop(source, ic,
                           IncPointer(IncCol(IncCol(IncPointer(cur)))),
                           Append(Append(value, delimiter), c), delimiter)
             ELSE lexCharacterDelimitedLoop(source, ic, IncPointer(IncCol(cur)),
                                            Append(value, c), delimiter)

lexCharacterDelimited(source, ic, delimiter) ==
    IF ic.pointer > Len(source)
    THEN Panic(ic)
    ELSE IF Len(source) - ic.pointer = 0
    THEN Reject(ic)
    ELSE IF At(source, ic.pointer) # delimiter
    THEN Reject(ic)
    ELSE lexCharacterDelimitedLoop(source, ic, IncPointer(IncCol(ic)), <<>>, delimiter)

lexString(source, ic) == lexCharacterDelimited(source, ic, "'")

----------------------------------------------------------------------------
(* longestMatch: lines 186-221 *)

\* i is in skipList (lines 197-201)
Skipped(i, skipList) == \E k \in 1..Len(skipList) : skipList[k] = i

RECURSIVE longestMatchOptions_FirstMatchWins(_, _, _, _, _, _)
\* the pass over the options with line 204 keeping the first exact match
\* (match replaced only while it is empty)
longestMatchOptions_FirstMatchWins(options, i, value, n, skipList, match) ==
    IF i > Len(options)
    THEN [skipList |-> skipList, match |-> match, panic |-> FALSE]
    ELSE LET option == options[i]
         IN  IF Skipped(i, skipList)
             THEN longestMatchOptions_FirstMatchWins(options, i + 1, value, n, skipList,
                                                     match)
             ELSE IF option = value
             THEN longestMatchOptions_FirstMatchWins(options, i + 1, value, n,
                      Append(skipList, i),
                      IF Len(match) = 0 THEN option ELSE match)
             ELSE IF n > Len(option)
             THEN [skipList |-> skipList, match |-> match, panic |-> TRUE]
             ELSE LET sharePrefix == value = SubSeq(option, 1, n)
                      tooLong == Len(value) > Len(options)
                  IN  longestMatchOptions_FirstMatchWins(options, i + 1, value, n,
                          IF tooLong \/ ~sharePrefix THEN Append(skipList, i) ELSE skipList,
                          match)

RECURSIVE longestMatchOptions_MatchNotSkipped(_, _, _, _, _, _)
\* the pass over the options without line 203: an exactly matched option
\* stays out of skipList
longestMatchOptions_MatchNotSkipped(options, i, value, n, skipList, match) ==
    IF i > Len(options)
    THEN [skipList |-> skipList, match |-> match, panic |-> FALSE]
    ELSE LET option == options[i]
         IN  IF Skipped(i, skipList)
             THEN longestMatchOptions_MatchNotSkipped(options, i + 1, value, n, skipList,
                                                      match)
             ELSE IF option = value
             THEN longestMatchOptions_MatchNotSkipped(options, i + 1, value, n, skipList,
                      IF Len(option) > Len(match) THEN option ELSE match)
             ELSE IF n > Len(option)
             THEN [skipList |-> skipList, match |-> match, panic |-> TRUE]
             ELSE LET sharePrefix == value = SubSeq(option, 1, n)
                      tooLong == Len(value) > Len(options)
                  IN  longestMatchOptions_MatchNotSkipped(options, i + 1, value, n,
                          IF tooLong \/ ~sharePrefix THEN Append(skipList, i) ELSE skipList,
                          match)

RECURSIVE longestMatchOptions(_, _, _, _, _, _)
\* lines 196-214: the pass over the options after one more character was
\* appended to value; n is cur.pointer-ic.pointer.  Option i here is
\* options[i-1] in Go.  option[:n] panics when n > len(option).
longestMatchOptions(options, i, value, n, skipList, match) ==
    IF i > Len(options)
    THEN [skipList |-> skipList, match |-> match, panic |-> FALSE]
    ELSE LET option == options[i]
             NextOption(acc) ==
                 longestMatchOptions(options, i + 1, value, n, acc.skipList, acc.match)
         IN  IF Skipped(i, skipList)
             THEN longestMatchOptions(options, i + 1, value, n, skipList, match)
             ELSE IF option = value
             THEN Once([skipList |-> Append(skipList, i),
                        match |-> IF Len(option) > Len(match) THEN option ELSE match],
                       NextOption)
             ELSE IF n > Len(option)
             THEN [skipList |-> skipList, match |-> match, panic |-> TRUE]
             ELSE LET sharePrefix == value = SubSeq(option, 1, n)
                      tooLong == Len(value) > Len(options)
                  IN  Once([skipList |-> IF tooLong \/ ~sharePrefix
                                         THEN Append(skipList, i) ELSE skipList,
                            match |-> match],
                           NextOption)

RECURSIVE longestMatchLoop(_, _, _, _, _, _, _)
\* lines 192-219: one iteration of the scan over the source, then the rest
longestMatchLoop(source, ic, options, cur0, value0, skipList, match) ==
    IF cur0.pointer >= Len(source)
    THEN [match |-> match, panic |-> FALSE]
    ELSE LET value == Append(value0, ToLower(At(source, cur0.pointer)))
             cur == IncPointer(cur0)
             AfterOptions(r) ==
                 IF r.panic
                 THEN [match |-> <<>>, panic |-> TRUE]
                 ELSE IF Len(r.skipList) = Len(options)
                 THEN [match |-> r.match, panic |-> FALSE]
                 ELSE longestMatchLoop(source, ic, options, cur, value, r.skipList, r.match)
         IN  Once(longestMatchOptions(options, 1, value, cur.pointer - ic.pointer,
                                      skipList, match),
                  AfterOptions)

longestMatch(source, ic, options) ==
    longestMatchLoop(source, ic, options, ic, <<>>, <<>>, <<>>)

----------------------------------------------------------------------------
(* lexSymbol: lines 223-262 *)

\* lines 239-245
symbols == <<SemiColonSymbol, AsteriskSymbol, CommaSymbol, LeftparenSymbol,
             RightparenSymbol>>

\* lines 250-261, shared in shape with lexKeyword lines 282-293
lexMatched(source, ic, options, kind) ==
    LET Matched(m) ==
            IF m.panic
            THEN Panic(ic)
            ELSE IF m.match = <<>>
            THEN Reject(ic)
            ELSE Result(Token(m.match, kind, ic.loc),
                        [pointer |-> ic.pointer + Len(m.match),
                         loc |-> Location(ic.loc.Line, ic.loc.Col + Len(m.match))],
                        TRUE)
    IN  Once(longestMatch(source, ic, options), Matched)

\* lexSymbol returning ic in place of cur for whitespace (line 236)
lexSymbol_WhitespaceStays(source, ic) ==
    IF ic.pointer >= Len(source)
    THEN Panic(ic)
    ELSE LET c == At(source, ic.pointer)
         IN  IF c = "\n" \/ c = "\t" \/ c = " "
             THEN Result(NilToken, ic, TRUE)
             ELSE lexMatched(source, ic, symbols, SymbolKind)

\* lexSymbol with the '\t' case of the switch (lines 233-234) left out
lexSymbol_TabNotSkipped(source, ic) ==
    IF ic.pointer >= Len(source)
    THEN Panic(ic)
    ELSE LET c == At(source, ic.pointer)
             cur == IncPointer(IncCol(ic))
         IN  IF c = "\n"
             THEN Result(NilToken,
                         [cur EXCEPT !.loc = Location(cur.loc.Line + 1, 0)], TRUE)
             ELSE IF c = " "
             THEN Result(NilToken, cur, TRUE)
             ELSE lexMatched(source, ic, symbols, SymbolKind)

lexSymbol(source, ic) ==
    IF ic.pointer >= Len(source)
    THEN Panic(ic)
    ELSE LET c == At(source, ic.pointer)
             cur == IncPointer(IncCol(ic))
         IN  IF c = "\n"
             THEN Result(NilToken,
                         [cur EXCEPT !.loc = Location(cur.loc.Line + 1, 0)], TRUE)
             ELSE IF c = "\t" \/ c = " "
             THEN Result(NilToken, cur, TRUE)
             ELSE lexMatched(source, ic, symbols, SymbolKind)

----------------------------------------------------------------------------
(* lexKeyword: lines 264-294 *)

\* lines 266-277
keywords == <<SelectKeyword, InsertKeyword, ValuesKeyword, TableKeyword,
              CreateKeyword, WhereKeyword, FromKeyword, IntoKeyword,
              TextKeyword, IntKeyword>>

\* lexKeyword rejecting a keyword that a letter follows (a word-boundary check
\* that lines 264-294 do not make)
lexKeyword_WordBoundary(source, ic) ==
    LET r == lexMatched(source, ic, keywords, KeywordKind)
    IN  IF r.ok /\ r.cur.pointer < Len(source)
               /\ IsLower(ToLower(At(source, r.cur.pointer)))
        THEN Reject(ic)
        ELSE r

lexKeyword(source, ic) == lexMatched(source, ic, keywords, KeywordKind)

----------------------------------------------------------------------------
(* lexIdentifier: lines 296-329 *)

IsAlpha(c) == IsUpper(c) \/ IsLower(c)

RECURSIVE lexIdentifierLoop(_, _, _)
\* lines 310-320: the scan of the identifier's tail; yields cursor and value
lexIdentifierLoop(source, cur, value) ==
    IF cur.pointer >= Len(source)
    THEN [cur |-> cur, value |-> value]
    ELSE LET c == At(source, cur.pointer)
         IN  IF IsAlpha(c) \/ c \in Digits \/ c = "$" \/ c = "_"
             THEN lexIdentifierLoop(source, IncPointer(IncCol(cur)), Append(value, c))
             ELSE [cur |-> cur, value |-> value]

lexIdentifier(source, ic) ==
    LET d == lexCharacterDelimited(source, ic, "\"")
    IN  IF d.ok \/ d.panic
        THEN d
        ELSE IF ic.pointer >= Len(source)
        THEN Panic(ic)
        ELSE LET c == At(source, ic.pointer)
             IN  IF ~IsAlpha(c)
                 THEN Reject(ic)
                 ELSE LET r == lexIdentifierLoop(source, IncCol(IncPointer(ic)), <<c>>)
                      IN  IF Len(r.value) = 0
                          THEN Reject(ic)
                          ELSE Result(Token(ToLowerStr(r.value), IdentifierKind, ic.loc),
                                      r.cur, TRUE)

----------------------------------------------------------------------------
(* The explored inputs *)

\* all sequences over S of length at most n
SeqsUpTo(S, n) == UNION {[1..k -> S] : k \in 0..n}

ToUpper(c) == IF IsLower(c) THEN Upper[CHOOSE i \in 1..26 : Lower[i] = c] ELSE c

\* every upper/lower-case spelling of the lowercase word w
Spellings(w) ==
    {[i \in 1..Len(w) |-> IF b[i] THEN ToUpper(w[i]) ELSE w[i]] :
        b \in [1..Len(w) -> BOOLEAN]}

\* lines 15-27: the declared keyword constants
KeywordConstants ==
    {SelectKeyword, FromKeyword, AsKeyword, TableKeyword, CreateKeyword,
     InsertKeyword, IntoKeyword, ValuesKeyword, IntKeyword, TextKeyword,
     WhereKeyword}

Alphabet == {"'", "\"", "1", ".", "e", "+", ";", " ", "a"}
Whitespace == {" ", "\t", "\n"}
SymbolChars == {";", "*", ",", "(", ")"}
LiteralChars == {"a", "B", " ", "1"}

GeneralSources == SeqsUpTo(Alphabet, MaxLen)
SymbolSources == SeqsUpTo(SymbolChars \cup Whitespace, MaxSymLen)
QuotedSources ==
    {<<d>> \o w \o <<d>> : d \in {"'", "\""},
                           w \in SeqsUpTo(LiteralChars, MaxLit) \ {<<>>}}
\* digits, then optionally . digits, then optionally e, a sign or none, digits
NumeralDigits == {"0", "1"}
DigitRuns == SeqsUpTo(NumeralDigits, MaxRun) \ {<<>>}
NumericSources ==
    {i \o f \o x :
        i \in DigitRuns,
        f \in {<<>>} \cup {<<".">> \o d : d \in DigitRuns},
        x \in {<<>>} \cup {<<"e">> \o s \o d : s \in {<<>>, <<"+">>, <<"-">>},
                                              d \in DigitRuns}}
KeywordSources == UNION {Spellings(w) : w \in KeywordConstants}
\* a keyword with one more character right behind it
Followers == {"e", "X", "1", "_", ";", "'"}
KeywordFollowed ==
    {w \o <<c>> : w \in {IntKeyword, FromKeyword, TextKeyword}, c \in Followers}

EndToEnd ==
    <<"s","e","l","e","c","t"," ","*"," ","f","r","o","m"," ",
      "\"","m","y","_","t","a","b","l","e","\""," ",
      "w","h","e","r","e"," ","1",";">>
SrcAbc == <<"'","a","b","c","'">>
SrcAbQuoteC == <<"'","a","b","'","'","c","'">>
SrcMyTable == <<"\"","M","y"," ","T","a","b","l","e","\"">>
SrcOneTwoThree == <<"1",".","2",".","3">>
SrcInteger == <<"i","n","t","e","g","e","r">>
SrcExponent == <<"1",".","5","e","+","1","0">>
SrcUnterminated == <<"'","a","b","c">>
SrcInsert == <<"i","n","s","e","r","t"," ","i","n","t","o"," ","t","(","a",",","b",")">>

Examples ==
    {EndToEnd, SrcAbc, SrcAbQuoteC, SrcMyTable, SrcOneTwoThree, SrcInteger,
     SrcExponent, SrcInsert, SrcUnterminated}

Sources ==
    GeneralSources \cup SymbolSources \cup QuotedSources \cup KeywordSources
        \cup KeywordFollowed \cup NumericSources \cup Examples

----------------------------------------------------------------------------
(* lex: lines 66-91 *)

VARIABLES
    source,   \* the argument of lex
    cur,      \* lex's cursor
    tokens,   \* lex's accumulated tokens
    starts,   \* for each token, the offset ic.pointer it was lexed at
    state,    \* "lexing", "done" (line 89), "error" (line 87) or "panic"
    result,   \* what lex returned: [tokens, err]
    call      \* the sub-lexer call that made the last step, with its result

vars == <<source, cur, tokens, starts, state, result, call>>

\* the list of line 73 with lexIdentifier moved in front of lexKeyword
lexers_IdentifierFirst ==
    <<"lexIdentifier", "lexKeyword", "lexSymbol", "lexNumeric", "lexString">>

\* line 73: the order the sub-lexers are tried in
lexers == <<"lexKeyword", "lexSymbol", "lexNumeric", "lexString", "lexIdentifier">>

\* line 75: l(source, cur)
Run(l, src, c) ==
    CASE l = "lexKeyword"    -> lexKeyword(src, c)
      [] l = "lexSymbol"     -> lexSymbol(src, c)
      [] l = "lexNumeric"    -> lexNumeric(src, c)
      [] l = "lexString"     -> lexString(src, c)
      [] l = "lexIdentifier" -> lexIdentifier(src, c)

\* lines 74-82: l is the first sub-lexer of the list that ends the inner loop
FirstToAccept(l) ==
    \E k \in 1..Len(lexers) :
        /\ lexers[k] = l
        /\ Run(l, source, cur).ok \/ Run(l, source, cur).panic
        /\ \A j \in 1..(k - 1) :
               ~Run(lexers[j], source, cur).ok /\ ~Run(lexers[j], source, cur).panic

NoError == [failed |-> FALSE, hinted |-> FALSE, hint |-> <<>>, Line |-> 0, Col |-> 0]

\* the error value with tokens[0] in place of tokens[len(tokens)-1] (line 85)
LexErrorValue_FirstToken(toks, c) ==
    [failed |-> TRUE,
     hinted |-> Len(toks) > 0,
     hint   |-> IF Len(toks) > 0 THEN toks[1].Value ELSE <<>>,
     Line   |-> c.loc.Line,
     Col    |-> c.loc.Col]

\* line 87: the fmt.Errorf value, by its parts
LexErrorValue(toks, c) ==
    [failed |-> TRUE,
     hinted |-> Len(toks) > 0,
     hint   |-> IF Len(toks) > 0 THEN toks[Len(toks)].Value ELSE <<>>,
     Line   |-> c.loc.Line,
     Col    |-> c.loc.Col]

NoCall == [lexer |-> "none", ic |-> ZeroCursor, res |-> Reject(ZeroCursor)]

Init ==
    /\ source \in Sources
    /\ cur = ZeroCursor
    /\ tokens = <<>>
    /\ starts = <<>>
    /\ state = "lexing"
    /\ result = [tokens |-> <<>>, err |-> NoError]
    /\ call = NoCall

\* lines 72-82: one iteration of the outer loop in which sub-lexer l accepts
LexStep(l) ==
    /\ state = "lexing"
    /\ cur.pointer < Len(source)
    /\ LET r == Run(l, source, cur)
       IN  /\ call' = [lexer |-> l, ic |-> cur, res |-> r]
           /\ IF r.panic
              THEN /\ state' = "panic"
                   /\ UNCHANGED <<cur, tokens, starts>>
              ELSE /\ state' = "lexing"
                   /\ cur' = r.cur
                   /\ tokens' = IF r.tok # NilToken THEN Append(tokens, r.tok) ELSE tokens
                   /\ starts' = IF r.tok # NilToken THEN Append(starts, cur.pointer) ELSE starts
    /\ UNCHANGED <<source, result>>

\* the five sub-lexers of line 73, each as the one that accepts
LexKeywordStep ==
    /\ FirstToAccept("lexKeyword")
    /\ LexStep("lexKeyword")

LexSymbolStep ==
    /\ FirstToAccept("lexSymbol")
    /\ LexStep("lexSymbol")

LexNumericStep ==
    /\ FirstToAccept("lexNumeric")
    /\ LexStep("lexNumeric")

LexStringStep ==
    /\ FirstToAccept("lexString")
    /\ LexStep("lexString")

LexIdentifierStep ==
    /\ FirstToAccept("lexIdentifier")
    /\ LexStep("lexIdentifier")

\* lines 83-87: no sub-lexer accepted
LexError ==
    /\ state = "lexing"
    /\ cur.pointer < Len(source)
    /\ \A k \in 1..Len(lexers) :
           ~Run(lexers[k], source, cur).ok /\ ~Run(lexers[k], source, cur).panic
    /\ state' = "error"
    /\ result' = [tokens |-> <<>>, err |-> LexErrorValue(tokens, cur)]
    /\ UNCHANGED <<source, cur, tokens, starts, call>>

\* line 89: the loop condition is false
LexReturn ==
    /\ state = "lexing"
    /\ cur.pointer >= Len(source)
    /\ state' = "done"
    /\ result' = [tokens |-> tokens, err |-> NoError]
    /\ UNCHANGED <<source, cur, tokens, starts, call>>

Next ==
    \/ LexKeywordStep
    \/ LexSymbolStep
    \/ LexNumericStep
    \/ LexStringStep
    \/ LexIdentifierStep
    \/ LexError
    \/ LexReturn

Spec == Init /\ [][Next]_vars

\* lex is one sequential call: it keeps running until it returns
FairSpec == Spec /\ WF_vars(Next)

TypeOK ==
    /\ source \in Sources
    /\ cur.pointer \in 0..Len(source)
    /\ state \in {"lexing", "done", "error", "panic"}
    /\ Len(starts) = Len(tokens)

----------------------------------------------------------------------------
(* The sub-lexers and longestMatch on their own: each is a function of       *)
(* (source, cursor), so it is applied once at a cursor anywhere inside the   *)
(* source; longestMatch also gets an option list other than the two lists    *)
(* of lexSymbol and lexKeyword.                                              *)

ProbeAlphabet == {"'", "1", ".", "e", "+", "a"}
MatchAlphabet == {"a", "b", "c", "A"}

\* non-empty lowercase option strings
OptionWords == {<<"a", "b">>, <<"a", "b", "c">>, <<"b">>}
OptionLists == SeqsUpTo(OptionWords, MaxOptions)

MatchSources == SeqsUpTo(MatchAlphabet, MaxLen)
ProbeSources == SeqsUpTo(ProbeAlphabet, MaxLen) \cup MatchSources \cup Examples

\* the zero-based line and column of the character at offset p of src
LocationOf(src, p) ==
    LET nl == {j \in 1..p : src[j] = "\n"}
        last == CHOOSE j \in nl : \A k \in nl : k <= j
    IN  Location(Cardinality(nl), IF nl = {} THEN p ELSE p - last)

ProbeInit ==
    /\ source \in ProbeSources
    /\ \E p \in 0..(Len(source) - 1) :
           cur = [pointer |-> p, loc |-> LocationOf(source, p)]
    /\ tokens = <<>>
    /\ starts = <<>>
    /\ state = "probe"
    /\ result = [tokens |-> <<>>, err |-> NoError]
    /\ call = NoCall

\* one call l(source, cur) of a sub-lexer
ProbeStep(l) ==
    /\ state = "probe"
    /\ call' = [lexer |-> l, ic |-> cur, res |-> Run(l, source, cur)]
    /\ state' = "probed"
    /\ UNCHANGED <<source, cur, tokens, starts, result>>

ProbeKeyword ==
    /\ cur.pointer < Len(source)
    /\ ProbeStep("lexKeyword")

ProbeSymbol ==
    /\ cur.pointer < Len(source)
    /\ ProbeStep("lexSymbol")

ProbeNumeric ==
    /\ cur.pointer < Len(source)
    /\ ProbeStep("lexNumeric")

ProbeString ==
    /\ cur.pointer < Len(source)
    /\ ProbeStep("lexString")

ProbeIdentifier ==
    /\ cur.pointer < Len(source)
    /\ ProbeStep("lexIdentifier")

\* one call longestMatch(source, cur, options)
ProbeLongestMatch ==
    /\ state = "probe"
    /\ source \in MatchSources
    /\ \E options \in OptionLists :
           call' = [lexer |-> "longestMatch", ic |-> cur, options |-> options,
                    res |-> longestMatch(source, cur, options)]
    /\ state' = "probed"
    /\ UNCHANGED <<source, cur, tokens, starts, result>>

ProbeNext ==
    \/ ProbeKeyword
    \/ ProbeSymbol
    \/ ProbeNumeric
    \/ ProbeString
    \/ ProbeIdentifier
    \/ ProbeLongestMatch

SpecProbe == ProbeInit /\ [][ProbeNext]_vars

----------------------------------------------------------------------------
(* Vocabulary of the properties *)

\* the kind and value of every token, in order (Token.equals, lines 60-62,
\* compares exactly these two fields)
KindsValues(toks) == [i \in 1..Len(toks) |-> <<toks[i].Kind, toks[i].Value>>]

\* src is d w d with w non-empty and free of d
Quoted(src, d) ==
    /\ Len(src) >= 3
    /\ src[1] = d
    /\ src[Len(src)] = d
    /\ \A i \in 2..(Len(src) - 1) : src[i] # d

\* the w of a source d w d
Body(src) == SubSeq(src, 2, Len(src) - 1)

\* the number of occurrences of c in s
Count(s, c) == Cardinality({i \in 1..Len(s) : s[i] = c})

RECURSIVE Collapse(_, _)
\* s with every adjacent pair d d replaced by one d, left to right
Collapse(s, d) ==
    IF s = <<>>
    THEN <<>>
    ELSE IF Len(s) >= 2 /\ s[1] = d /\ s[2] = d
    THEN <<d>> \o Collapse(SubSeq(s, 3, Len(s)), d)
    ELSE <<s[1]>> \o Collapse(Tail(s), d)

\* s contains two adjacent d
HasDoubled(s, d) == \E i \in 1..(Len(s) - 1) : s[i] = d /\ s[i + 1] = d

IsWhitespaceChar(c) == c \in Whitespace

\* the Symbol tokens, by kind and value, of the non-whitespace characters of s
SymbolTokensOf(s) ==
    LET t == SelectSeq(s, LAMBDA c : ~IsWhitespaceChar(c))
    IN  [i \in 1..Len(t) |-> <<SymbolKind, <<t[i]>>>>]

\* the last step was an acceptance by lexCharacterDelimited (through
\* lexString or the first lines of lexIdentifier)
DelimitedAccepted ==
    /\ call.lexer \in {"lexString", "lexIdentifier"}
    /\ call.res.ok
    /\ At(source, call.ic.pointer) \in {"'", "\""}

\* the characters between the opening delimiter and the terminating one
DelimitedBody == Slice(source, call.ic.pointer + 1, call.res.cur.pointer)

----------------------------------------------------------------------------
(* The claims *)

\* C1: for a source 'w' with w non-empty and free of single quotes, lex
\* returns no error and exactly one token, of kind String, with value w.
C1_SingleQuotedLiteral ==
    (Quoted(source, "'") /\ state # "lexing") =>
        /\ state = "done"
        /\ result.err = NoError
        /\ KindsValues(result.tokens) = << <<StringKind, Body(source)>> >>

\* C2: when lexCharacterDelimited accepts a literal that contains a doubled
\* delimiter, the token value has one delimiter per doubled pair and every
\* other character of the literal once and in order.
C2_DoubledDelimiterCollapses ==
    (DelimitedAccepted /\ HasDoubled(DelimitedBody, At(source, call.ic.pointer))) =>
        call.res.tok.Value = Collapse(DelimitedBody, At(source, call.ic.pointer))

\* C3: for a source "w" with w non-empty and free of double quotes, the token
\* lexIdentifier returns has kind Identifier and value w folded to lowercase.
C3_QuotedIdentifier ==
    (/\ Quoted(source, "\"")
     /\ call.lexer = "lexIdentifier"
     /\ call.ic.pointer = 0
     /\ call.res.ok) =>
        /\ call.res.tok.Kind = IdentifierKind
        /\ call.res.tok.Value = ToLowerStr(Body(source))

\* C4: a Numeric token accepted by lexNumeric has at most one '.' in its
\* value, so 1.2.3 is never one Numeric token.
C4_AtMostOnePeriod ==
    (call.lexer = "lexNumeric" /\ call.res.ok) =>
        Count(call.res.tok.Value, ".") <= 1

\* C5: for every upper/lower-case spelling of select as the whole source, lex
\* returns exactly one token, Keyword select, and never an Identifier token.
C5_SelectIsKeyword ==
    (ToLowerStr(source) = SelectKeyword) =>
        /\ state \notin {"error", "panic"}
        /\ \A i \in 1..Len(tokens) : tokens[i].Kind # IdentifierKind
        /\ state = "done" =>
               /\ result.err = NoError
               /\ KindsValues(result.tokens) = << <<KeywordKind, SelectKeyword>> >>

C5_Witness ==
    /\ source = <<"S", "e", "L", "E", "c", "t">>
    /\ state = "done"
    /\ call.lexer = "lexKeyword"
    /\ KindsValues(result.tokens) = << <<KeywordKind, SelectKeyword>> >>

\* C6: each of the eleven keyword words, as included, lexed alone yields one
\* Keyword token with that word as value.
C6_AllKeywordsRecognised ==
    (source \in KeywordConstants /\ state # "lexing") =>
        /\ state = "done"
        /\ KindsValues(result.tokens) = << <<KeywordKind, source>> >>

\* C7: lexing  select * from "my_table" where 1;  returns no error and the
\* seven tokens Keyword(select), Symbol(*), Keyword(from),
\* Identifier(my_table), Keyword(where), Numeric(1), Symbol(;).
C7_EndToEnd ==
    (source = EndToEnd /\ state # "lexing") =>
        /\ state = "done"
        /\ result.err = NoError
        /\ KindsValues(result.tokens) =
               << <<KeywordKind, SelectKeyword>>,
                  <<SymbolKind, AsteriskSymbol>>,
                  <<KeywordKind, FromKeyword>>,
                  <<IdentifierKind, <<"m","y","_","t","a","b","l","e">> >>,
                  <<KeywordKind, WhereKeyword>>,
                  <<NumericKind, <<"1">> >>,
                  <<SymbolKind, SemiColonSymbol>> >>

\* C8: for a source made only of ; * , ( ) space, tab and newline, lex returns
\* no error and exactly the non-whitespace characters, one Symbol token each,
\* in source order; whitespace produces no token.
C8_SymbolsAndWhitespace ==
    (\A i \in 1..Len(source) : source[i] \in SymbolChars \cup Whitespace) =>
        /\ state \notin {"error", "panic"}
        /\ KindsValues(tokens) = SymbolTokensOf(SubSeq(source, 1, cur.pointer))
        /\ state = "done" =>
               /\ result.err = NoError
               /\ cur.pointer = Len(source)
               /\ KindsValues(result.tokens) = SymbolTokensOf(source)

C8_Witness ==
    /\ \A i \in 1..Len(source) : source[i] \in SymbolChars \cup Whitespace
    /\ \E i \in 1..Len(source) : source[i] \in Whitespace
    /\ state = "done"
    /\ Len(result.tokens) >= 2
    /\ result.tokens[1].Value # result.tokens[2].Value

\* C9: every token's Loc is the zero-based line and column of the token's
\* first character, whatever tokens precede it.
C9_TokenLocations ==
    \A i \in 1..Len(tokens) : tokens[i].Loc = LocationOf(source, starts[i])

\* C10: every token a sub-lexer returns together with accepted = true has a
\* non-empty Value.
C10_ValueNeverEmpty ==
    (call.res.ok /\ call.res.tok # NilToken) => call.res.tok.Value # <<>>

\* C11: lex is all-or-nothing.  It returns tokens and no error only with the
\* cursor offset at len(source); otherwise an error and nil tokens, the error
\* naming the line and column of the cursor where no sub-lexer accepted and
\* carrying the last token's Value exactly when a token had been produced.
C11_AllOrNothing ==
    /\ state = "lexing" => result = [tokens |-> <<>>, err |-> NoError]
    /\ state = "done" =>
           /\ result.err = NoError
           /\ result.tokens = tokens
           /\ cur.pointer = Len(source)
    /\ state = "error" =>
           /\ result.tokens = <<>>
           /\ result.err.failed
           /\ cur.pointer < Len(source)
           /\ \A k \in 1..Len(lexers) : ~Run(lexers[k], source, cur).ok
           /\ result.err.Line = cur.loc.Line
           /\ result.err.Col = cur.loc.Col
           /\ result.err.hinted <=> Len(tokens) > 0
           /\ result.err.hinted => result.err.hint = tokens[Len(tokens)].Value

C11_Witness ==
    /\ state = "error"
    /\ Len(tokens) >= 2
    /\ tokens[1].Value # tokens[Len(tokens)].Value
    /\ result.err.hint = tokens[Len(tokens)].Value
    /\ result.tokens = <<>>

\* src starts with a single quote and has no later single quote
Unterminated(src) ==
    /\ Len(src) >= 1
    /\ src[1] = "'"
    /\ \A i \in 2..Len(src) : src[i] # "'"

\* C12: an unterminated literal is never accepted: for a source that starts
\* with a single quote and has no later one, lexString returns no match and
\* lex returns an error with no tokens.
C12_UnterminatedRejected ==
    Unterminated(source) =>
        /\ ~lexString(source, ZeroCursor).ok
        /\ lexString(source, ZeroCursor).tok = NilToken
        /\ tokens = <<>>
        /\ state \in {"lexing", "error"}
        /\ state = "error" =>
               /\ result.tokens = <<>>
               /\ result.err.failed
               /\ ~result.err.hinted

C12_Witness ==
    /\ source = SrcUnterminated
    /\ state = "error"
    /\ result.err.failed
    /\ result.tokens = <<>>

\* s is a non-empty run of digits
IsDigitRun(s) == Len(s) >= 1 /\ \A i \in 1..Len(s) : s[i] \in Digits

\* s is empty or . followed by digits
IsFraction(s) == s = <<>> \/ (s[1] = "." /\ IsDigitRun(Tail(s)))

\* s is empty or e, an optional sign and digits
IsExponent(s) ==
    \/ s = <<>>
    \/ /\ Len(s) >= 2
       /\ s[1] = "e"
       /\ \/ IsDigitRun(Tail(s))
          \/ s[2] \in {"+", "-"} /\ IsDigitRun(Tail(Tail(s)))

\* src is digits, an optional fraction and an optional exponent
IsNumeral(src) ==
    \E a \in 1..Len(src) : \E b \in a..Len(src) :
        /\ IsDigitRun(SubSeq(src, 1, a))
        /\ IsFraction(SubSeq(src, a + 1, b))
        /\ IsExponent(SubSeq(src, b + 1, Len(src)))

\* C13: for a source that is digits, optionally . digits, optionally e with
\* an optional sign and at least one digit, lex returns no error and exactly
\* one Numeric token whose value is the whole source.
C13_NumeralIsOneToken ==
    IsNumeral(source) =>
        /\ state \in {"lexing", "done"}
        /\ cur.pointer \in {0, Len(source)}
        /\ cur.pointer = Len(source) =>
               KindsValues(tokens) = << <<NumericKind, source>> >>
        /\ state = "done" =>
               /\ result.err = NoError
               /\ KindsValues(result.tokens) = << <<NumericKind, source>> >>

C13_Witness ==
    /\ source = SrcExponent
    /\ state = "done"
    /\ call.lexer = "lexNumeric"
    /\ KindsValues(result.tokens) = << <<NumericKind, SrcExponent>> >>

\* C14: when lexCharacterDelimited accepts, the closing delimiter is consumed:
\* the returned cursor is one past the terminating delimiter, so the next
\* step of lex starts after the literal and not on the delimiter.
C14_ClosingDelimiterConsumed ==
    DelimitedAccepted =>
        /\ call.res.cur.pointer >= call.ic.pointer + 2
        /\ At(source, call.res.cur.pointer - 1) = At(source, call.ic.pointer)
        /\ (Quoted(source, At(source, call.ic.pointer)) /\ call.ic.pointer = 0) =>
               call.res.cur.pointer = Len(source)

\* opt is a case-insensitive prefix of src at offset p
IsPrefixAt(opt, src, p) ==
    /\ p + Len(opt) <= Len(src)
    /\ \A i \in 1..Len(opt) : ToLower(src[p + i]) = opt[i]

\* the options of the list that are case-insensitive prefixes of src at p
PrefixOptions(options, src, p) ==
    {o \in {options[i] : i \in 1..Len(options)} : IsPrefixAt(o, src, p)}

\* a longest element of the non-empty set S of strings
Longest(S) == CHOOSE o \in S : \A q \in S : Len(q) <= Len(o)

\* C15: with the keyword list of lexKeyword the longest keyword wins: when
\* several keywords are case-insensitive prefixes of the source at the cursor
\* lexKeyword returns the longest and advances the cursor by its length.
C15_LongestKeywordWins ==
    /\ (call.lexer = "lexKeyword" /\ call.res.ok) =>
           LET P == PrefixOptions(keywords, source, call.ic.pointer)
           IN  /\ P # {}
               /\ call.res.tok.Value = Longest(P)
               /\ call.res.cur.pointer = call.ic.pointer + Len(Longest(P))
               /\ call.res.cur.loc.Col = call.ic.loc.Col + Len(Longest(P))
    /\ (state = "lexing"
            /\ Cardinality(PrefixOptions(keywords, source, cur.pointer)) >= 2) =>
           LET P == PrefixOptions(keywords, source, cur.pointer)
               r == lexKeyword(source, cur)
           IN  /\ r.ok
               /\ r.tok.Value = Longest(P)
               /\ r.cur.pointer = cur.pointer + Len(Longest(P))

C15_Witness ==
    /\ call.lexer = "lexKeyword"
    /\ call.res.ok
    /\ call.ic.pointer > 0
    /\ PrefixOptions(keywords, source, call.ic.pointer) = {IntKeyword, IntoKeyword}
    /\ call.res.tok.Value = IntoKeyword
    /\ cur.pointer = call.ic.pointer + Len(IntoKeyword)

SubLexers == {lexers[k] : k \in 1..Len(lexers)}

\* C16: longestMatch meets its contract for every option list: it returns
\* the longest option that is a case-insensitive prefix of the source at the
\* cursor, or the empty string when no option is.
C16_LongestMatchContract ==
    call.lexer = "longestMatch" =>
        LET P == PrefixOptions(call.options, source, call.ic.pointer)
        IN  /\ ~call.res.panic
            /\ call.res.match = IF P = {} THEN <<>> ELSE Longest(P)

\* C17: a sub-lexer that does not accept leaves the cursor unchanged: it
\* returns the cursor it was given (offset, line and column) and no token.
C17_RejectKeepsCursor ==
    (call.lexer \in SubLexers /\ ~call.res.ok) =>
        /\ ~call.res.panic
        /\ call.res.cur = call.ic
        /\ call.res.cur = cur
        /\ call.res.tok = NilToken

C17_Witness ==
    /\ state = "probed"
    /\ call.lexer = "lexNumeric"
    /\ ~call.res.ok
    /\ call.ic.pointer > 0
    /\ At(source, call.ic.pointer) \in Digits
    /\ call.res.cur = call.ic

\* C20: longestMatch never slices an option past its end, for any list of
\* non-empty options and any source: option[:cur.pointer-ic.pointer] is
\* always in range.
C20_SliceInRange ==
    call.lexer = "longestMatch" => ~call.res.panic

C20_Witness ==
    /\ call.lexer = "longestMatch"
    /\ call.options = << <<"a", "b">>, <<"a", "b", "c">> >>
    /\ call.res.match = <<"a", "b", "c">>
    /\ ~call.res.panic

\* C18: lex terminates on every finite source: every acceptance strictly
\* increases the cursor offset and never moves it past len(source), and the
\* loop ends with the offset at len(source) or with the error.
C18_LexTerminates ==
    /\ [][(state = "lexing" /\ state' = "lexing") =>
              (cur'.pointer > cur.pointer /\ cur'.pointer <= Len(source))]_vars
    /\ [](state = "done" => cur.pointer = Len(source))
    /\ <>(state \in {"done", "error"})

C18_Witness ==
    /\ state = "done"
    /\ Len(tokens) >= 3
    /\ cur.pointer = Len(source)
    /\ call.lexer = "lexNumeric"

\* C19: lexKeyword checks no word boundary: whenever a keyword of its list is
\* a case-insensitive prefix of the source at the cursor it accepts, whatever
\* character follows, so a bare word that starts with a keyword is split:
\* integer lexes as Keyword int then Identifier eger, never as one Identifier.
C19_NoWordBoundary ==
    /\ (state = "lexing" /\ PrefixOptions(keywords, source, cur.pointer) # {}) =>
           LET P == PrefixOptions(keywords, source, cur.pointer)
               r == lexKeyword(source, cur)
           IN  /\ r.ok
               /\ r.tok.Kind = KeywordKind
               /\ r.tok.Value \in P
               /\ r.cur.pointer = cur.pointer + Len(r.tok.Value)
    /\ (Len(tokens) >= 1 /\ PrefixOptions(keywords, source, 0) # {}) =>
           /\ tokens[1].Kind = KeywordKind
           /\ tokens[1].Value \in PrefixOptions(keywords, source, 0)
    /\ source = SrcInteger =>
           /\ state \in {"lexing", "done"}
           /\ state = "done" =>
                  /\ Len(tokens) = 2
                  /\ tokens[1].Kind = KeywordKind
                  /\ tokens[1].Value = IntKeyword
                  /\ tokens[2].Kind = IdentifierKind
                  /\ tokens[2].Value = <<"e", "g", "e", "r">>

C19_Witness ==
    /\ source = SrcInteger
    /\ state = "done"
    /\ Len(tokens) = 2
    /\ call.lexer = "lexIdentifier"
    /\ call.ic.pointer = Len(IntKeyword)

====
